---- MODULE Spec2Model ----
(***************************************************************************)
(* A model of the Lox front end: the Scanner (src/src/scanner.rs), the     *)
(* Token data model (src/src/scanner/token.rs) and the recursive-descent   *)
(* Parser (src/src/parser.rs).                                             *)
(*                                                                         *)
(* Offsets (start, current) are 0-based as in the code; the source is a    *)
(* TLA+ sequence of one-character strings, so the character at offset i    *)
(* is source[i + 1].  Only ASCII sources are modelled, for which the byte  *)
(* length source.len() and the character count agree.                      *)
(***************************************************************************)
EXTENDS Integers, Sequences, FiniteSets, TLC

\* ---------------------------------------------------------------- bounds
\* Longest source text enumerated exhaustively over CoreAlphabet.
MaxLen == 4
\* The line counter is a u32; the model narrows it to 0..LineMax so that
\* its overflow (reached only by a loop that never leaves) is explorable.
LineMax == 8
\* Number of scan_tokens calls made on one Scanner.
MaxCalls == 2
\* Longest token sequence (EOF excluded) enumerated over CoreTokens.
MaxTokens == 4
\* Longest script file enumerated over ScriptAlphabet.
MaxScriptLen == 3
\* Longest input line (newline excluded) enumerated over PromptAlphabet.
MaxLineLen == 2
\* Number of lines on standard input.
MaxLines == 2

VARIABLES
    source,           \* Scanner.source
    tokens,           \* Scanner.tokens
    start,            \* Scanner.start
    current,          \* Scanner.current
    line,             \* Scanner.line
    pc,               \* position of the scanner's control
    calls,            \* number of scan_tokens calls started
    result,           \* value returned by the last scan_tokens call
    errors,           \* diagnostics printed by Lox::report, in order
    had_error,        \* HAD_ERROR
    overflow_checks,  \* build profile: integer overflow panics or wraps
    parser_tokens,    \* Parser.tokens
    parser_current,   \* Parser.current
    parser_pc,        \* position of the parser's caller
    parser_stack,     \* call stack of the recursive descent, top first
    parser_ret,       \* value returned by the last function to return
    parser_result,    \* the Expression returned to the parser's caller
    argc,             \* args.len() in Lox::main
    script,           \* the script file: <<>> if unreadable, else <<contents>>
    stdin,            \* the lines not yet read from standard input
    lox_pc,           \* position of the control of main.rs
    exit_status       \* how the process has ended, "running" until then

scannerVars == <<source, tokens, start, current, line, pc, calls, result,
                 overflow_checks>>

\* The state of the error-reporting functions of main.rs.
loxVars == <<errors, had_error>>

parserVars == <<parser_tokens, parser_current, parser_pc, parser_stack,
                parser_ret, parser_result>>

\* The process of main.rs and its environment.
driverVars == <<argc, script, stdin, lox_pc, exit_status>>

vars == <<source, tokens, start, current, line, pc, calls, result,
          errors, had_error, overflow_checks, parser_tokens, parser_current,
          parser_pc, parser_stack, parser_ret, parser_result,
          argc, script, stdin, lox_pc, exit_status>>

\* ------------------------------------------------------------ characters
NUL == "NUL"

Digits == {"0", "1", "2", "3", "4", "5", "6", "7", "8", "9"}

LowerCase == {"a", "b", "c", "d", "e", "f", "g", "h", "i", "j", "k", "l", "m",
              "n", "o", "p", "q", "r", "s", "t", "u", "v", "w", "x", "y", "z"}

UpperCase == {"A", "B", "C", "D", "E", "F", "G", "H", "I", "J", "K", "L", "M",
              "N", "O", "P", "Q", "R", "S", "T", "U", "V", "W", "X", "Y", "Z"}

is_digit(c) == c \in Digits

is_alpha(c) == c \in LowerCase \/ c \in UpperCase \/ c = "_"

is_alpha_numeric(c) == is_alpha(c) \/ is_digit(c)

\* --------------------------------------------------------------- literals
LiteralNil == [kind |-> "Nil"]

LiteralBool(b) == [kind |-> "Bool", value |-> b]

LiteralNumber(n) == [kind |-> "Number", value |-> n]

LiteralString(s) == [kind |-> "String", value |-> s]

Token(token_type, lexeme, literal, ln) ==
    [token_type |-> token_type, lexeme |-> lexeme, literal |-> literal, line |-> ln]

\* The keyword table built in Scanner::new.
keywords ==
    (<<"a", "n", "d">> :> "AND") @@
    (<<"c", "l", "a", "s", "s">> :> "CLASS") @@
    (<<"e", "l", "s", "e">> :> "ELSE") @@
    (<<"f", "a", "l", "s", "e">> :> "FALSE") @@
    (<<"f", "o", "r">> :> "FOR") @@
    (<<"f", "u", "n">> :> "FUN") @@
    (<<"i", "f">> :> "IF") @@
    (<<"n", "i", "l">> :> "NIL") @@
    (<<"o", "r">> :> "OR") @@
    (<<"p", "r", "i", "n", "t">> :> "PRINT") @@
    (<<"r", "e", "t", "u", "r", "n">> :> "RETURN") @@
    (<<"s", "u", "p", "e", "r">> :> "SUPER") @@
    (<<"t", "h", "i", "s">> :> "THIS") @@
    (<<"t", "r", "u", "e">> :> "TRUE") @@
    (<<"v", "a", "r">> :> "VAR") @@
    (<<"w", "h", "i", "l", "e">> :> "WHILE")

\* ---------------------------------------------------- f64 parsing (parse())
\* A decimal value mant * 10^(-exp), normalised so that equal numbers have
\* equal representations ("3" and "3.0" both give mant 3, exp 0).
DigitVal(c) ==
    CASE c = "0" -> 0 [] c = "1" -> 1 [] c = "2" -> 2 [] c = "3" -> 3
      [] c = "4" -> 4 [] c = "5" -> 5 [] c = "6" -> 6 [] c = "7" -> 7
      [] c = "8" -> 8 [] c = "9" -> 9

RECURSIVE Normalise(_, _)
Normalise(mant, exp) ==
    IF exp > 0 /\ mant % 10 = 0 THEN Normalise(mant \div 10, exp - 1)
    ELSE [mant |-> mant, exp |-> exp]

RECURSIVE ParseDigits(_, _, _, _, _)
ParseDigits(text, i, mant, exp, seenDot) ==
    IF i > Len(text) THEN Normalise(mant, exp)
    ELSE IF text[i] = "." THEN ParseDigits(text, i + 1, mant, exp, TRUE)
    ELSE ParseDigits(text, i + 1, mant * 10 + DigitVal(text[i]),
                     IF seenDot THEN exp + 1 ELSE exp, seenDot)

\* str::parse::<f64> accepts digits with at most one '.', and at least one
\* digit ("1." and ".5" parse, "." and "" do not).
ParseOk(text) ==
    /\ \A i \in 1..Len(text) : is_digit(text[i]) \/ text[i] = "."
    /\ Cardinality({i \in 1..Len(text) : text[i] = "."}) <= 1
    /\ \E i \in 1..Len(text) : is_digit(text[i])

ParseNumber(text) == ParseDigits(text, 1, 0, 0, FALSE)

\* -------------------------------------------------------- scanner helpers
\* self.source.len() - 1 underflows for the empty source: with overflow
\* checks the subtraction panics, without them it wraps to usize::MAX.
IsAtEndPanics == Len(source) = 0 /\ overflow_checks

is_at_end_one_late(cur) ==
    IF Len(source) = 0 THEN FALSE
    ELSE cur >= Len(source) + 1

is_at_end(cur) ==
    IF Len(source) = 0 THEN FALSE
    ELSE cur >= Len(source) - 1

\* self.source.chars().nth(cur) is Some.
HasChar(cur) == cur < Len(source)

CharAt(cur) == source[cur + 1]

\* advance panics exactly when there is no character at current.
AdvancePanics(cur) == ~HasChar(cur)

\* peek panics when it is not at the end and there is no character.
PeekPanics(cur) == IsAtEndPanics \/ (~is_at_end(cur) /\ ~HasChar(cur))

peek(cur) ==
    IF is_at_end(cur) THEN NUL ELSE CharAt(cur)

PeekNextPanics(cur) == ~(cur + 1 >= Len(source)) /\ ~HasChar(cur + 1)

peek_next(cur) ==
    IF cur + 1 >= Len(source) THEN NUL ELSE CharAt(cur + 1)

\* match_token: TRUE when the character is consumed (current becomes cur + 1).
match_token(cur, expected) ==
    IF is_at_end(cur) THEN FALSE
    ELSE IF HasChar(cur) /\ CharAt(cur) # expected THEN FALSE
    ELSE TRUE

add_token_complete_shifted(toks, token_type, literal, st, cur, ln) ==
    IF st <= cur /\ cur <= Len(source)
    THEN Append(toks, Token(token_type, SubSeq(source, st + 2, cur), literal, ln))
    ELSE toks

add_token_complete(toks, token_type, literal, st, cur, ln) ==
    IF st <= cur /\ cur <= Len(source)
    THEN Append(toks, Token(token_type, SubSeq(source, st + 1, cur), literal, ln))
    ELSE toks

add_token_keyword_value(toks, token_type, st, cur, ln) ==
    add_token_complete(toks, token_type,
                       IF token_type \in {"TRUE", "FALSE"}
                       THEN LiteralBool(token_type = "TRUE")
                       ELSE LiteralNil,
                       st, cur, ln)

add_token(toks, token_type, st, cur, ln) ==
    add_token_complete(toks, token_type, LiteralNil, st, cur, ln)

\* Lox::error -> Lox::report: print the diagnostic.
report(errs, ln, message) == Append(errs, [line |-> ln, message |-> message])


\* Token types of the one-character lexemes of scan_token.
SingleChars == {"(", ")", "{", "}", ",", ".", "-", "+", ";", "*"}

SingleCharType(c) ==
    CASE c = "(" -> "LEFT_PAREN" [] c = ")" -> "RIGHT_PAREN"
      [] c = "{" -> "LEFT_BRACE" [] c = "}" -> "RIGHT_BRACE"
      [] c = "," -> "COMMA" [] c = "." -> "DOT" [] c = "-" -> "MINUS"
      [] c = "+" -> "PLUS" [] c = ";" -> "SEMICOLON" [] c = "*" -> "STAR"

OperatorChars == {"!", "=", "<", ">"}

OneCharType(c) ==
    CASE c = "!" -> "BANG" [] c = "=" -> "EQUAL"
      [] c = "<" -> "LESS" [] c = ">" -> "GREATER"

TwoCharType(c) ==
    CASE c = "!" -> "BANG_EQUAL" [] c = "=" -> "EQUAL_EQUAL"
      [] c = "<" -> "LESS_EQUAL" [] c = ">" -> "GREATER_EQUAL"

\* self.line += 1 on a u32: at the maximum it panics with overflow checks
\* and wraps to 0 without them.
inc_line_backwards(l) == IF l = LineMax THEN 0 ELSE l - 1

inc_line(l) == IF l = LineMax THEN 0 ELSE l + 1

\* The EOF token pushed at the end of scan_tokens.
eof_token_with_lexeme(ln) ==
    Token("EOF", SubSeq(source, start + 1, current), LiteralNil, ln)

eof_token(ln) == Token("EOF", <<>>, LiteralNil, ln)

\* ------------------------------------------------------------ input space
CoreAlphabet == {"1", "+", "/", "*", "\"", "\n", "@", "a", "=", ".", " "}

BoundedSources == UNION {[1..n -> CoreAlphabet] : n \in 0..MaxLen}

ExampleSources ==
    { <<"1", "+", "2">>,
      <<"/", "/", " ", "c", "\n", "1">>,
      <<"/", "/", " ", "c", "\n", "1", " ">>,
      <<"\"", "a", "b", "c">>,
      <<"\"", "a", "b", "c", "\"">>,
      <<"\"", "a", "b", "\"", " ", "1", " ">>,
      <<"\"", "a", "\n", "b", "\"", " ">>,
      <<"@", "1", "+", "2", " ">>,
      <<"1", "2", ".", "5", "0", " ">>,
      <<"t", "r", "u", "e", " ", "n", "i", "l", " ">>,
      <<"/", "*", "a", "\n", "*", "/", "1", " ">>,
      <<"!", "=", "<", "=", ">", "!", " ">>,
      <<"!", "=", "=", "=", "<", "=", ">", "=", " ">>,
      <<"f", "a", "l", "s", "e", " ", "t", "r", "u", "e", " ">>,
      <<"/", "*", "\n", "*", "/", "1", " ">>,
      <<"/", "*", "\n", "\n", "*", "/", "1", " ">>,
      <<"/", "*", "a", "*", "/", "1", "\n", "1", " ">>,
      <<"/", "*", "/", "*", "*", "/", "1", "*", "/", " ">>,
      <<"1", ".", "1", "+", "1", ".", "a", " ">>,
      <<"1", " ", "/", "*", "*", "/">>,
      <<"(", "1", "\t", "\r", ")", "{", "}", ",", "-", ";", " ">> }

Sources == BoundedSources \cup ExampleSources

\* ------------------------------------------------------- scanner actions
\* A Scanner or Parser used on its own, outside a process of main.rs.
NoProcess ==
    /\ argc = 0
    /\ script = <<>>
    /\ stdin = <<>>
    /\ lox_pc = "unused"
    /\ exit_status = "running"

\* Init: the state after Scanner::new(source), before any call.
InitScanner ==
    /\ source \in Sources
    /\ tokens = <<>>
    /\ start = 0
    /\ current = 0
    /\ line = 1
    /\ pc = "idle"
    /\ calls = 0
    /\ result = <<>>
    /\ errors = <<>>
    /\ had_error = FALSE
    /\ overflow_checks \in BOOLEAN
    /\ parser_tokens = <<eof_token(1)>>
    /\ parser_current = 0
    /\ parser_pc = "idle"
    /\ parser_stack = <<>>
    /\ parser_ret = [kind |-> "None"]
    /\ parser_result = [kind |-> "None"]
    /\ NoProcess

ScanStep(npc, nstart, ncur, nline, ntoks, nerrs) ==
    /\ pc' = npc
    /\ start' = nstart
    /\ current' = ncur
    /\ line' = nline
    /\ tokens' = ntoks
    /\ errors' = nerrs
    /\ had_error' = (had_error \/ nerrs # errors)
    /\ UNCHANGED <<source, calls, result, overflow_checks>>
    /\ UNCHANGED parserVars
    /\ UNCHANGED driverVars

\* A panic unwinds out of scan_tokens: no value is returned.
ScanPanic(nstart) ==
    /\ pc' = "panic"
    /\ start' = nstart
    /\ UNCHANGED <<source, tokens, current, line, calls, result, errors,
                   had_error, overflow_checks>>
    /\ UNCHANGED parserVars
    /\ UNCHANGED driverVars

\* A step that executes self.line += 1 when inc holds.
ScanStepLine(npc, nstart, ncur, inc, ntoks, nerrs) ==
    IF inc /\ line = LineMax /\ overflow_checks
    THEN ScanPanic(nstart)
    ELSE ScanStep(npc, nstart, ncur, IF inc THEN inc_line(line) ELSE line,
                  ntoks, nerrs)

\* A caller invokes scan_tokens.
ScanTokensCall_fresh_tokens ==
    /\ pc \in {"idle", "returned"}
    /\ calls < MaxCalls
    /\ pc' = "loop"
    /\ calls' = calls + 1
    /\ tokens' = <<>>
    /\ UNCHANGED <<source, start, current, line, result, errors,
                   had_error, overflow_checks>>
    /\ UNCHANGED parserVars
    /\ UNCHANGED driverVars

ScanTokensCall ==
    /\ pc \in {"idle", "returned"}
    /\ calls < MaxCalls
    /\ pc' = "loop"
    /\ calls' = calls + 1
    /\ UNCHANGED <<source, tokens, start, current, line, result, errors,
                   had_error, overflow_checks>>
    /\ UNCHANGED parserVars
    /\ UNCHANGED driverVars

\* The loop test of scan_tokens on the empty source, overflow checks on.
ScanTokensOverflow ==
    /\ pc = "loop"
    /\ IsAtEndPanics
    /\ ScanPanic(start)

\* The loop of scan_tokens has ended: push EOF and return a clone.
ScanTokensReturn ==
    /\ pc = "loop"
    /\ ~IsAtEndPanics
    /\ is_at_end(current)
    /\ tokens' = Append(tokens, eof_token(line))
    /\ result' = tokens'
    /\ pc' = "returned"
    /\ UNCHANGED <<source, start, current, line, calls, errors, had_error,
                   overflow_checks>>
    /\ UNCHANGED parserVars
    /\ UNCHANGED driverVars

\* One iteration of the loop of scan_tokens: start = current; scan_token(),
\* up to the entry of the loop of a comment, string, number or identifier.
ScanToken ==
    /\ pc = "loop"
    /\ ~IsAtEndPanics
    /\ ~is_at_end(current)
    /\ IF AdvancePanics(current) THEN ScanPanic(current)
       ELSE LET c == CharAt(current)
                st == current
                cur == current + 1
            IN  CASE c \in SingleChars ->
                    ScanStep("loop", st, cur, line,
                             add_token(tokens, SingleCharType(c), st, cur, line),
                             errors)
                [] c \in OperatorChars ->
                    LET m == match_token(cur, "=")
                        ncur == IF m THEN cur + 1 ELSE cur
                        tt == IF m THEN TwoCharType(c) ELSE OneCharType(c)
                    IN  ScanStep("loop", st, ncur, line,
                                 add_token(tokens, tt, st, ncur, line), errors)
                [] c = "/" ->
                    IF match_token(cur, "/")
                    THEN ScanStep("line_comment", st, cur + 1, line, tokens, errors)
                    ELSE IF match_token(cur, "*")
                    THEN ScanStep("block_comment", st, cur + 1, line, tokens, errors)
                    ELSE ScanStep("loop", st, cur, line,
                                  add_token(tokens, "SLASH", st, cur, line), errors)
                [] c \in {" ", "\r", "\t"} ->
                    ScanStep("loop", st, cur, line, tokens, errors)
                [] c = "\n" ->
                    ScanStepLine("loop", st, cur, TRUE, tokens, errors)
                [] c = "\"" ->
                    ScanStep("string", st, cur, line, tokens, errors)
                [] OTHER ->
                    IF is_digit(c)
                    THEN ScanStep("number", st, cur, line, tokens, errors)
                    ELSE IF is_alpha(c)
                    THEN ScanStep("identifier", st, cur, line, tokens, errors)
                    ELSE ScanStep("loop", st, cur, line, tokens,
                                  report(errors, line, "Unexpected character."))

\* One test of the loop of a line comment, with its body.
LineComment ==
    /\ pc = "line_comment"
    /\ IF PeekPanics(current) THEN ScanPanic(start)
       ELSE IF peek(current) # "\n" /\ ~is_at_end(current)
       THEN IF AdvancePanics(current) THEN ScanPanic(start)
            ELSE ScanStep("line_comment", start, current + 1, line, tokens, errors)
       ELSE ScanStep("loop", start, current, line, tokens, errors)

\* One test of the loop of a block comment, with its body.
BlockComment ==
    /\ pc = "block_comment"
    /\ IF is_at_end(current)
       THEN ScanStep("loop", start, current, line, tokens, errors)
       ELSE IF PeekPanics(current) \/ PeekNextPanics(current) THEN ScanPanic(start)
       ELSE IF peek(current) = "*" /\ peek_next(current) = "/"
       THEN IF AdvancePanics(current) \/ AdvancePanics(current + 1)
            THEN ScanPanic(start)
            ELSE ScanStep("loop", start, current + 2, line, tokens, errors)
       ELSE LET m == match_token(current, "\n")
                cur == IF m THEN current + 1 ELSE current
            IN  IF AdvancePanics(cur) THEN ScanPanic(start)
                ELSE ScanStepLine("block_comment", start, cur + 1, m, tokens, errors)

\* One test of the loop of identifier(), and the code after the loop.
Identifier ==
    /\ pc = "identifier"
    /\ IF PeekPanics(current) THEN ScanPanic(start)
       ELSE IF is_alpha_numeric(peek(current))
       THEN IF AdvancePanics(current) THEN ScanPanic(start)
            ELSE ScanStep("identifier", start, current + 1, line, tokens, errors)
       ELSE IF ~(start <= current /\ current <= Len(source)) THEN ScanPanic(start)
       ELSE LET text == SubSeq(source, start + 1, current)
                tt == IF text \in DOMAIN keywords THEN keywords[text]
                      ELSE "IDENTIFIER"
            IN  ScanStep("loop", start, current, line,
                         add_token(tokens, tt, start, current, line), errors)

\* The end of number(): parse the lexeme and add the NUMBER token.
NumberToken(cur) ==
    IF ~(start <= cur /\ cur <= Len(source)) THEN ScanPanic(start)
    ELSE LET value == SubSeq(source, start + 1, cur)
         IN  IF ParseOk(value)
             THEN ScanStep("loop", start, cur, line,
                           add_token_complete(tokens, "NUMBER",
                               LiteralNumber(ParseNumber(value)), start, cur, line),
                           errors)
             ELSE ScanPanic(start)

\* One test of the first loop of number() (the whole part), and the test
\* for a fractional part after it.
Number ==
    /\ pc = "number"
    /\ IF PeekPanics(current) THEN ScanPanic(start)
       ELSE IF is_digit(peek(current))
       THEN IF AdvancePanics(current) THEN ScanPanic(start)
            ELSE ScanStep("number", start, current + 1, line, tokens, errors)
       ELSE IF PeekNextPanics(current) THEN ScanPanic(start)
       ELSE IF peek(current) = "." /\ is_digit(peek_next(current))
       THEN IF AdvancePanics(current) THEN ScanPanic(start)
            ELSE ScanStep("number_fraction", start, current + 1, line, tokens, errors)
       ELSE NumberToken(current)

\* One test of the second loop of number() (the fractional part).
NumberFraction ==
    /\ pc = "number_fraction"
    /\ IF PeekPanics(current) THEN ScanPanic(start)
       ELSE IF is_digit(peek(current))
       THEN IF AdvancePanics(current) THEN ScanPanic(start)
            ELSE ScanStep("number_fraction", start, current + 1, line, tokens, errors)
       ELSE NumberToken(current)

\* One test of the loop of string(), with its body, and the code after it.
String ==
    /\ pc = "string"
    /\ IF PeekPanics(current) THEN ScanPanic(start)
       ELSE IF peek(current) # "\"" /\ ~is_at_end(current)
       THEN IF peek(current) = "\n"
            THEN ScanStepLine("string", start, current, TRUE, tokens, errors)
            ELSE IF AdvancePanics(current) THEN ScanPanic(start)
            ELSE ScanStep("string", start, current + 1, line, tokens, errors)
       ELSE IF is_at_end(current)
       THEN ScanStep("loop", start, current, line, tokens,
                     report(errors, line, "Unterminated string."))
       ELSE IF AdvancePanics(current) THEN ScanPanic(start)
       ELSE LET cur == current + 1
                s == start + 1
                e == cur - 1
            IN  IF s <= e /\ e <= Len(source)
                THEN ScanStep("loop", start, cur, line,
                              add_token_complete(tokens, "STRING",
                                  LiteralString(SubSeq(source, s + 1, e)),
                                  start, cur, line),
                              errors)
                ELSE ScanStep("loop", start, cur, line, tokens, errors)

NextScanner ==
    \/ ScanTokensCall
    \/ ScanTokensOverflow
    \/ ScanTokensReturn
    \/ ScanToken
    \/ LineComment
    \/ BlockComment
    \/ Identifier
    \/ Number
    \/ NumberFraction
    \/ String

SpecScanner == InitScanner /\ [][NextScanner]_vars

\* scan_tokens is straight-line sequential code: whenever a step of it is
\* possible, it is taken.
FairSpecScanner == SpecScanner /\ WF_vars(NextScanner)


\* ================================================================ parser
\* The cursor is 0-based as in the code: tokens[current] is toks[cur + 1].

\* ------------------------------------------------------------ expressions
\* A function of parser.rs that ends without returning a value.
NoExpression == [kind |-> "None"]

Literal(value) == [kind |-> "Literal", value |-> value]

Grouping(expr) == [kind |-> "Grouping", expression |-> expr]

Unary(operator, right) ==
    [kind |-> "Unary", operator |-> operator, right |-> right]

Binary(left, operator, right) ==
    [kind |-> "Binary", left |-> left, operator |-> operator, right |-> right]

\* --------------------------------------------------------- cursor helpers
parser_peek(toks, cur) == toks[cur + 1]

parser_is_at_end(toks, cur) == parser_peek(toks, cur).token_type = "EOF"

\* self.tokens[self.current - 1] panics when current is 0.
PreviousPanics(cur) == cur = 0

parser_previous(toks, cur) == toks[cur]

parser_check(toks, cur, token_type) ==
    IF parser_is_at_end(toks, cur) THEN FALSE
    ELSE parser_peek(toks, cur).token_type = token_type

\* The cursor after advance().
parser_advance(toks, cur) ==
    IF ~parser_is_at_end(toks, cur) THEN cur + 1 ELSE cur

\* match_tokens: whether a type matched, and the cursor afterwards.
match_tokens(toks, cur, token_types) ==
    IF \E i \in 1..Len(token_types) : parser_check(toks, cur, token_types[i])
    THEN [matched |-> TRUE, current |-> parser_advance(toks, cur)]
    ELSE [matched |-> FALSE, current |-> cur]

\* consume: advances when the type matches; otherwise the function ends
\* without a value and without calling Lox::error or Lox::report (message
\* is unused).
consume(toks, cur, token_type, message) ==
    IF parser_check(toks, cur, token_type)
    THEN [consumed |-> TRUE, current |-> parser_advance(toks, cur)]
    ELSE [consumed |-> FALSE, current |-> cur]

\* The operator sets of the four binary rules.
EqualityOperators == <<"BANG_EQUAL", "EQUAL_EQUAL">>

ComparisonOperators == <<"GREATER", "GREATER_EQUAL", "LESS", "LESS_EQUAL">>

TermOperators_swapped == <<"SLASH", "STAR">>

TermOperators == <<"MINUS", "PLUS">>

FactorOperators == <<"SLASH", "STAR">>

UnaryOperators == <<"BANG", "MINUS">>

\* ------------------------------------------------------------ input space
NumberToken1 == Token("NUMBER", <<"1">>, LiteralNumber([mant |-> 1, exp |-> 0]), 1)

NumberToken2 == Token("NUMBER", <<"2">>, LiteralNumber([mant |-> 2, exp |-> 0]), 1)

NumberToken3 == Token("NUMBER", <<"3">>, LiteralNumber([mant |-> 3, exp |-> 0]), 1)

Punct(token_type, c) == Token(token_type, <<c>>, LiteralNil, 1)

PlusToken == Punct("PLUS", "+")

MinusToken == Punct("MINUS", "-")

StarToken == Punct("STAR", "*")

SlashToken == Punct("SLASH", "/")

LessToken == Punct("LESS", "<")

GreaterToken == Punct("GREATER", ">")

BangToken == Punct("BANG", "!")

LeftParenToken == Punct("LEFT_PAREN", "(")

RightParenToken == Punct("RIGHT_PAREN", ")")

SemicolonToken == Punct("SEMICOLON", ";")

EqualEqualToken == Token("EQUAL_EQUAL", <<"=", "=">>, LiteralNil, 1)

BangEqualToken == Token("BANG_EQUAL", <<"!", "=">>, LiteralNil, 1)

TrueToken == Token("TRUE", <<"t", "r", "u", "e">>, LiteralNil, 1)

FalseToken == Token("FALSE", <<"f", "a", "l", "s", "e">>, LiteralNil, 1)

NilToken == Token("NIL", <<"n", "i", "l">>, LiteralNil, 1)

StringToken == Token("STRING", <<"\"", "a", "\"">>, LiteralString(<<"a">>), 1)

IdentifierToken == Token("IDENTIFIER", <<"a">>, LiteralNil, 1)

CoreTokens == {NumberToken1, PlusToken, MinusToken, StarToken, LessToken,
               EqualEqualToken, LeftParenToken, RightParenToken}

BinaryOperatorTokens == {PlusToken, MinusToken, StarToken, SlashToken, LessToken,
                         GreaterToken, EqualEqualToken, BangEqualToken}

\* The token sequences of "1 + 2 * 3" and "(1 + 2".
TokensOnePlusTwoTimesThree ==
    <<NumberToken1, PlusToken, NumberToken2, StarToken, NumberToken3>>

TokensUnterminatedGroup ==
    <<LeftParenToken, NumberToken1, PlusToken, NumberToken2>>

ExampleTokens ==
    { TokensOnePlusTwoTimesThree,
      TokensUnterminatedGroup,
      <<LeftParenToken, NumberToken1, PlusToken, NumberToken2, RightParenToken,
        StarToken, NumberToken3>>,
      <<BangToken, TrueToken, EqualEqualToken, FalseToken>>,
      <<NilToken, BangEqualToken, StringToken>>,
      <<NumberToken1, SemicolonToken>>,
      <<IdentifierToken, PlusToken, NumberToken1>> }
    \cup { <<NumberToken1, a, NumberToken2, b, NumberToken3>> :
               a \in BinaryOperatorTokens, b \in BinaryOperatorTokens }

BoundedTokens == UNION {[1..n -> CoreTokens] : n \in 0..MaxTokens}

\* Every parser input ends with the EOF token the scanner appends.
TokenSequences == {Append(ts, eof_token(1)) : ts \in BoundedTokens \cup ExampleTokens}

\* ------------------------------------------------------- main.rs driver
\* Bounds of the driver's inputs.
ScriptAlphabet == {"1", "@", "\n", " "}

PromptAlphabet == {"1", "@", "\""}

\* The script files: every short text over ScriptAlphabet and the examples.
Scripts ==
    UNION {[1..n -> ScriptAlphabet] : n \in 0..MaxScriptLen} \cup ExampleSources

\* read_line returns a line with its terminating newline.
PromptLines ==
    {l \o <<"\n">> : l \in UNION {[1..n -> PromptAlphabet] : n \in 0..MaxLineLen}}

StdinInputs == UNION {[1..n -> PromptLines] : n \in 0..MaxLines}

\* Init: the process has started and is about to run Lox::main.
InitLox ==
    /\ argc \in 1..3
    /\ script \in IF argc = 2 THEN {<<>>} \cup {<<s>> : s \in Scripts} ELSE {<<>>}
    /\ stdin \in IF argc = 1 THEN StdinInputs ELSE {<<>>}
    /\ lox_pc = "main"
    /\ exit_status = "running"
    /\ errors = <<>>
    /\ had_error = FALSE
    /\ overflow_checks \in BOOLEAN
    /\ source = <<>>
    /\ tokens = <<>>
    /\ start = 0
    /\ current = 0
    /\ line = 1
    /\ pc = "none"
    /\ calls = 0
    /\ result = <<>>
    /\ parser_tokens = <<eof_token(1)>>
    /\ parser_current = 0
    /\ parser_pc = "idle"
    /\ parser_stack = <<>>
    /\ parser_ret = NoExpression
    /\ parser_result = NoExpression

\* A step of main.rs outside the scanner that ends the process.
LoxExit(status) ==
    /\ lox_pc' = "exited"
    /\ exit_status' = status
    /\ UNCHANGED <<argc, script, stdin>>
    /\ UNCHANGED scannerVars
    /\ UNCHANGED loxVars
    /\ UNCHANGED parserVars

\* A step of main.rs that only moves its control.
LoxGoto(npc) ==
    /\ lox_pc' = npc
    /\ UNCHANGED <<argc, script, stdin, exit_status>>
    /\ UNCHANGED scannerVars
    /\ UNCHANGED loxVars
    /\ UNCHANGED parserVars

\* Lox::main: dispatch on the number of arguments.
Main ==
    /\ lox_pc = "main"
    /\ IF argc > 2 THEN LoxExit("exit(64)")
       ELSE IF argc = 2 THEN LoxGoto("run_file")
       ELSE LoxGoto("run_prompt")

\* Lox::run up to the call of scan_tokens: Scanner::new(source).  The steps
\* of scan_tokens follow; the tokens are then printed, which changes no
\* state of the process.
run(text, npc, nstdin) ==
    /\ source' = text
    /\ tokens' = <<>>
    /\ start' = 0
    /\ current' = 0
    /\ line' = 1
    /\ pc' = "idle"
    /\ calls' = 0
    /\ result' = <<>>
    /\ lox_pc' = npc
    /\ stdin' = nstdin
    /\ UNCHANGED <<argc, script, exit_status, overflow_checks>>
    /\ UNCHANGED loxVars
    /\ UNCHANGED parserVars

\* Lox::run_file: read the script and run it, or panic if it is unreadable.
RunFile ==
    /\ lox_pc = "run_file"
    /\ IF script = <<>> THEN LoxExit("panic")
       ELSE run(script[1], "file_run", stdin)

\* The status Lox::run_file ends the process with once run has returned.
FileExit_always_returns(flag) == "returned"

FileExit(flag) == IF flag THEN "exit(64)" ELSE "returned"

\* Lox::run_file after self.run: the test of HAD_ERROR.
RunFileCheck ==
    /\ lox_pc = "file_run"
    /\ pc = "returned"
    /\ LoxExit(FileExit(had_error))

\* Lox::run_prompt: prompt, read one line (empty at end of input), run it.
RunPrompt ==
    /\ lox_pc = "run_prompt"
    /\ IF stdin = <<>> THEN run(<<>>, "prompt_run", stdin)
       ELSE run(Head(stdin), "prompt_run", Tail(stdin))

\* The value Lox::run_prompt stores into HAD_ERROR after each line.
FlagAfterLine_kept(flag) == flag

FlagAfterLine(flag) == FALSE

\* Lox::run_prompt after self.run: reset HAD_ERROR and loop.
RunPromptReset ==
    /\ lox_pc = "prompt_run"
    /\ pc = "returned"
    /\ had_error' = FlagAfterLine(had_error)
    /\ lox_pc' = "run_prompt"
    /\ UNCHANGED <<argc, script, stdin, exit_status, errors>>
    /\ UNCHANGED scannerVars
    /\ UNCHANGED parserVars

\* A panic inside scan_tokens unwinds through run and ends the process.
RunPanic ==
    /\ lox_pc \in {"file_run", "prompt_run"}
    /\ pc = "panic"
    /\ LoxExit("panic")

\* The steps of the one scan_tokens call that Lox::run makes.
RunScan ==
    /\ lox_pc \in {"file_run", "prompt_run"}
    /\ pc # "returned"
    /\ NextScanner

NextLox ==
    \/ Main
    \/ RunFile
    \/ RunFileCheck
    \/ RunPrompt
    \/ RunPromptReset
    \/ RunPanic
    \/ RunScan

SpecLox == InitLox /\ [][NextLox]_vars

\* -------------------------------------------------------- parser actions
\* The recursive descent is run with an explicit call stack: a frame names
\* the function, the point it has reached and its locals; parser_ret holds
\* the value the last returning function returned.
NoToken == [token_type |-> "None"]

Frame(fn, at, expr, operator) ==
    [fn |-> fn, at |-> at, expr |-> expr, operator |-> operator]

Entry(fn) == Frame(fn, "entry", NoExpression, NoToken)

\* Init: the state after Parser::new(tokens).
InitParser ==
    /\ parser_tokens \in TokenSequences
    /\ parser_current = 0
    /\ parser_pc = "ready"
    /\ parser_stack = <<>>
    /\ parser_ret = NoExpression
    /\ parser_result = NoExpression
    /\ source = <<>>
    /\ tokens = <<>>
    /\ start = 0
    /\ current = 0
    /\ line = 1
    /\ pc = "unused"
    /\ calls = 0
    /\ result = <<>>
    /\ errors = <<>>
    /\ had_error = FALSE
    /\ overflow_checks = FALSE
    /\ NoProcess

ParserStep(npc, ncur, nstack, nret) ==
    /\ parser_pc' = npc
    /\ parser_current' = ncur
    /\ parser_stack' = nstack
    /\ parser_ret' = nret
    /\ UNCHANGED <<parser_tokens, parser_result>>
    /\ UNCHANGED scannerVars
    /\ UNCHANGED loxVars
    /\ UNCHANGED driverVars

\* No function of parser.rs calls Lox::error or Lox::report, so no step of
\* the parser changes loxVars.
\* The running function calls callee; its own frame waits at the point at.
ParserCall(callee, waiting, ncur) ==
    ParserStep("parsing", ncur, <<Entry(callee), waiting>> \o Tail(parser_stack),
               parser_ret)

\* The running function returns expr.
ParserReturn(expr, ncur) ==
    ParserStep("parsing", ncur, Tail(parser_stack), expr)

ParserPanic ==
    ParserStep("panic", parser_current, parser_stack, parser_ret)

Running(fn) ==
    /\ parser_pc = "parsing"
    /\ parser_stack # <<>>
    /\ Head(parser_stack).fn = fn

\* The caller parses one expression from the cursor.
ParseExpression ==
    /\ parser_pc = "ready"
    /\ ParserStep("parsing", parser_current, <<Entry("expression")>>,
                  parser_ret)

\* The outermost call has returned to the caller.
ParseFinished ==
    /\ parser_pc = "parsing"
    /\ parser_stack = <<>>
    /\ parser_pc' = "done"
    /\ parser_result' = parser_ret
    /\ UNCHANGED <<parser_tokens, parser_current, parser_stack, parser_ret>>
    /\ UNCHANGED scannerVars
    /\ UNCHANGED loxVars
    /\ UNCHANGED driverVars

\* Rule: expression -> equality.
expression ==
    /\ Running("expression")
    /\ LET top == Head(parser_stack)
       IN  IF top.at = "entry"
           THEN ParserCall("equality", [top EXCEPT !.at = "tail"], parser_current)
           ELSE ParserReturn(parser_ret, parser_current)

\* A rule of the form  fn -> sub ( operators sub )* : the call for the
\* first operand, then the while loop folding each match into a Binary.
BinaryRule_operands_swapped(fn, sub, operators) ==
    /\ Running(fn)
    /\ LET top == Head(parser_stack)
       IN  IF top.at = "entry"
           THEN ParserCall(sub, [top EXCEPT !.at = "first"], parser_current)
           ELSE LET expr == IF top.at = "first" THEN parser_ret
                            ELSE Binary(parser_ret, top.operator, top.expr)
                    m == match_tokens(parser_tokens, parser_current, operators)
                IN  IF m.matched
                    THEN IF PreviousPanics(m.current) THEN ParserPanic
                         ELSE ParserCall(sub,
                                  Frame(fn, "right", expr,
                                        parser_previous(parser_tokens, m.current)),
                                  m.current)
                    ELSE ParserReturn(expr, parser_current)

BinaryRule(fn, sub, operators) ==
    /\ Running(fn)
    /\ LET top == Head(parser_stack)
       IN  IF top.at = "entry"
           THEN ParserCall(sub, [top EXCEPT !.at = "first"], parser_current)
           ELSE LET expr == IF top.at = "first" THEN parser_ret
                            ELSE Binary(top.expr, top.operator, parser_ret)
                    m == match_tokens(parser_tokens, parser_current, operators)
                IN  IF m.matched
                    THEN IF PreviousPanics(m.current) THEN ParserPanic
                         ELSE ParserCall(sub,
                                  Frame(fn, "right", expr,
                                        parser_previous(parser_tokens, m.current)),
                                  m.current)
                    ELSE ParserReturn(expr, parser_current)

equality == BinaryRule("equality", "comparison", EqualityOperators)

comparison == BinaryRule("comparison", "term", ComparisonOperators)

term == BinaryRule("term", "factor", TermOperators)

factor == BinaryRule("factor", "unary", FactorOperators)

\* Rule: unary -> ( "!" | "-" ) unary | primary.
unary ==
    /\ Running("unary")
    /\ LET top == Head(parser_stack)
           m == match_tokens(parser_tokens, parser_current, UnaryOperators)
       IN  CASE top.at = "entry" ->
                   IF m.matched
                   THEN IF PreviousPanics(m.current) THEN ParserPanic
                        ELSE ParserCall("unary",
                                 Frame("unary", "right", NoExpression,
                                       parser_previous(parser_tokens, m.current)),
                                 m.current)
                   ELSE ParserCall("primary", [top EXCEPT !.at = "tail"],
                                   parser_current)
             [] top.at = "right" ->
                   ParserReturn(Unary(top.operator, parser_ret), parser_current)
             [] top.at = "tail" ->
                   ParserReturn(parser_ret, parser_current)

\* Rule: primary -> NUMBER | STRING | "true" | "false" | "nil" | "(" expression ")".
primary ==
    /\ Running("primary")
    /\ LET top == Head(parser_stack)
           f == match_tokens(parser_tokens, parser_current, <<"FALSE">>)
           t == match_tokens(parser_tokens, parser_current, <<"TRUE">>)
           n == match_tokens(parser_tokens, parser_current, <<"NIL">>)
           l == match_tokens(parser_tokens, parser_current, <<"NUMBER", "STRING">>)
           p == match_tokens(parser_tokens, parser_current, <<"LEFT_PAREN">>)
           c == consume(parser_tokens, parser_current, "RIGHT_PAREN",
                        "Expect ')' after expression.")
       IN  IF top.at = "group"
           THEN ParserReturn(Grouping(parser_ret), c.current)
           ELSE IF f.matched
           THEN ParserReturn(Literal(LiteralBool(FALSE)), f.current)
           ELSE IF t.matched
           THEN ParserReturn(Literal(LiteralBool(TRUE)), t.current)
           ELSE IF n.matched
           THEN ParserReturn(Literal(LiteralNil), n.current)
           ELSE IF l.matched
           THEN IF PreviousPanics(l.current) THEN ParserPanic
                ELSE ParserReturn(
                         Literal(parser_previous(parser_tokens, l.current).literal),
                         l.current)
           ELSE IF p.matched
           THEN ParserCall("expression", [top EXCEPT !.at = "group"], p.current)
           ELSE ParserReturn(NoExpression, parser_current)

NextParser ==
    \/ ParseExpression
    \/ ParseFinished
    \/ expression
    \/ equality
    \/ comparison
    \/ term
    \/ factor
    \/ unary
    \/ primary

SpecParser == InitParser /\ [][NextParser]_vars

\* ------------------------------------------------- parser helper calls
\* The cursor helpers of the Parser called one at a time, in any order, on
\* a Parser fresh from Parser::new.  parser_ret holds what the call returned.
Returns(value) == [kind |-> "Value", value |-> value]

\* The token types a caller passes to check and consume.
CheckedTypes == {"EOF", "NUMBER", "PLUS", "STAR", "LEFT_PAREN", "RIGHT_PAREN"}

\* The operator sets a caller passes to match_tokens.
MatchedTypes == {EqualityOperators, ComparisonOperators, TermOperators,
                 FactorOperators, UnaryOperators}

\* Parser::check.
CallCheck ==
    /\ parser_pc = "ready"
    /\ \E token_type \in CheckedTypes :
           ParserStep("ready", parser_current, parser_stack,
                      Returns(parser_check(parser_tokens, parser_current,
                                           token_type)))

\* Parser::advance: move unless at the end, then return previous().
CallAdvance ==
    /\ parser_pc = "ready"
    /\ LET ncur == parser_advance(parser_tokens, parser_current)
       IN  IF PreviousPanics(ncur) THEN ParserPanic
           ELSE ParserStep("ready", ncur, parser_stack,
                           Returns(parser_previous(parser_tokens, ncur)))

\* Parser::match_tokens.
CallMatchTokens ==
    /\ parser_pc = "ready"
    /\ \E token_types \in MatchedTypes :
           LET m == match_tokens(parser_tokens, parser_current, token_types)
           IN  IF m.matched /\ PreviousPanics(m.current) THEN ParserPanic
               ELSE ParserStep("ready", m.current, parser_stack,
                               Returns(m.matched))

\* Parser::consume: returns the consumed token, or ends without a value.
CallConsume ==
    /\ parser_pc = "ready"
    /\ \E token_type \in CheckedTypes :
           LET c == consume(parser_tokens, parser_current, token_type, "")
           IN  IF c.consumed /\ PreviousPanics(c.current) THEN ParserPanic
               ELSE ParserStep("ready", c.current, parser_stack,
                               IF c.consumed
                               THEN Returns(parser_previous(parser_tokens,
                                                            c.current))
                               ELSE NoExpression)

NextParserCalls ==
    \/ CallCheck
    \/ CallAdvance
    \/ CallMatchTokens
    \/ CallConsume

SpecParserCalls == InitParser /\ [][NextParserCalls]_vars


\* ================================================================ claims
Returned == pc = "returned" /\ calls = 1

Quote == "\""

CountChar(s, c) == Cardinality({i \in 1..Len(s) : s[i] = c})

TokenTypes(toks) == [i \in 1..Len(toks) |-> toks[i].token_type]

Messages(errs) == [i \in 1..Len(errs) |-> errs[i].message]

\* Type, lexeme and literal of a token, without its line.
Lexical(t) == <<t.token_type, t.lexeme, t.literal>>

One == LiteralNumber([mant |-> 1, exp |-> 0])

Two == LiteralNumber([mant |-> 2, exp |-> 0])

Three == LiteralNumber([mant |-> 3, exp |-> 0])

\* C1: for every (non-empty) finite source text a call to scan_tokens
\* terminates: it eventually returns a token sequence.
C1_ScanTokensTerminates == (source # <<>>) => <>(pc = "returned")

\* C2: the sequence returned by the first scan_tokens call on a Scanner
\* contains exactly one EOF token, which is its last element and has the
\* empty lexeme.
C2_ExactlyOneEofLast ==
    Returned =>
        /\ Len(result) >= 1
        /\ result[Len(result)].token_type = "EOF"
        /\ result[Len(result)].lexeme = <<>>
        /\ \A i \in 1..(Len(result) - 1) : result[i].token_type # "EOF"

C2_Witness ==
    /\ Returned
    /\ Len(result) >= 3
    /\ result[1].token_type = "IDENTIFIER"

\* C3: the scan loop runs until current has reached the end of the source,
\* and scanning "1+2" returns NUMBER("1", 1.0), PLUS, NUMBER("2", 2.0), EOF.
C3_ScansOnePlusTwo ==
    (Returned /\ source = <<"1", "+", "2">>) =>
        /\ current = Len(source)
        /\ Len(result) = 4
        /\ Lexical(result[1]) = <<"NUMBER", <<"1">>, One>>
        /\ Lexical(result[2]) = <<"PLUS", <<"+">>, LiteralNil>>
        /\ Lexical(result[3]) = <<"NUMBER", <<"2">>, Two>>
        /\ Lexical(result[4]) = <<"EOF", <<>>, LiteralNil>>

\* The source is blanks, then one string literal with both its quotes at
\* offsets i < j (1-based), then text without quotes.
ClosedStringAt(i, j) ==
    /\ i < j
    /\ source[i] = Quote
    /\ source[j] = Quote
    /\ \A k \in 1..Len(source) : (source[k] = Quote) => k \in {i, j}
    /\ \A k \in 1..(i - 1) : source[k] = " "

\* C4: a string literal that has a closing quote, the last character of the
\* input included, gives one STRING token whose lexeme runs from quote to
\* quote and whose literal is the text between them, and no
\* unterminated-string error.
C4_ClosedStringToken ==
    Returned =>
        \A i, j \in 1..Len(source) :
            ClosedStringAt(i, j) =>
                /\ Len(result) >= 2
                /\ Lexical(result[1]) =
                       <<"STRING", SubSeq(source, i, j),
                         LiteralString(SubSeq(source, i + 1, j - 1))>>
                /\ \A k \in 1..Len(errors) :
                       errors[k].message # "Unterminated string."

\* The source is blanks, then an opening quote at offset i (1-based) that
\* no later quote closes.
UnterminatedStringAt(i) ==
    /\ source[i] = Quote
    /\ \A k \in 1..Len(source) : (source[k] = Quote) => k = i
    /\ \A k \in 1..(i - 1) : source[k] = " "

\* C5: an opening quote with no closing quote records exactly one
\* "Unterminated string." error, leaves the scan position at the end of the
\* input, emits no STRING token, and the result still ends in EOF.
C5_UnterminatedString ==
    Returned =>
        \A i \in 1..Len(source) :
            UnterminatedStringAt(i) =>
                /\ Messages(errors) = <<"Unterminated string.">>
                /\ current = Len(source)
                /\ \A k \in 1..Len(result) : result[k].token_type # "STRING"
                /\ result[Len(result)].token_type = "EOF"

\* The token types of a source made only of '+' and of the unrecognized '@'.
PlusTokens(s) == [i \in 1..CountChar(s, "+") |-> "PLUS"]

\* C6: each unrecognized character records exactly one "Unexpected
\* character." error, consumes one character and emits no token, and every
\* valid lexeme after it still produces its token.
C6_UnexpectedCharacter ==
    (/\ Returned
     /\ CountChar(source, "@") >= 1
     /\ \A k \in 1..Len(source) : source[k] \in {"@", "+"}) =>
        /\ Len(errors) = CountChar(source, "@")
        /\ \A k \in 1..Len(errors) : errors[k].message = "Unexpected character."
        /\ TokenTypes(result) = PlusTokens(source) \o <<"EOF">>

\* C7: "// c\n1" returns NUMBER("1", 1.0) with line 2, then EOF: the comment
\* gives no token and ends before the newline, which is scanned normally.
C7_LineComment ==
    (Returned /\ source = <<"/", "/", " ", "c", "\n", "1">>) =>
        /\ Len(result) = 2
        /\ Lexical(result[1]) = <<"NUMBER", <<"1">>, One>>
        /\ result[1].line = 2
        /\ result[2].token_type = "EOF"

\* Precedence level of a binary operator token, lowest first.
Level(operator) ==
    CASE operator.token_type \in {"BANG_EQUAL", "EQUAL_EQUAL"} -> 1
      [] operator.token_type \in {"GREATER", "GREATER_EQUAL", "LESS", "LESS_EQUAL"} -> 2
      [] operator.token_type \in {"MINUS", "PLUS"} -> 3
      [] operator.token_type \in {"SLASH", "STAR"} -> 4

\* A Binary node's operands that are Binary nodes themselves (not inside a
\* Grouping) have operators that bind at least as tightly as its own.
TighterBelow(e) ==
    e.kind = "Binary" =>
        /\ e.left.kind = "Binary" => Level(e.left.operator) >= Level(e.operator)
        /\ e.right.kind = "Binary" => Level(e.right.operator) >= Level(e.operator)

OnePlusTwoTimesThree ==
    Binary(Literal(One), PlusToken, Binary(Literal(Two), StarToken, Literal(Three)))

\* C8: factor binds tighter than term, term than comparison, comparison than
\* equality: every Binary node the parser builds has operands that bind at
\* least as tightly, and the tokens of "1 + 2 * 3" parse to
\* Binary(+, Literal(1.0), Binary(*, Literal(2.0), Literal(3.0))).
C8_Precedence ==
    /\ TighterBelow(parser_ret)
    /\ \A k \in 1..Len(parser_stack) : TighterBelow(parser_stack[k].expr)
    /\ (parser_pc = "done"
          /\ parser_tokens = Append(TokensOnePlusTwoTimesThree, eof_token(1)))
       => parser_result = OnePlusTwoTimesThree

C8_Witness ==
    /\ parser_pc = "done"
    /\ parser_tokens = Append(TokensOnePlusTwoTimesThree, eof_token(1))
    /\ parser_result = OnePlusTwoTimesThree

\* primary has parsed the expression after '(' and the current token is
\* not ')'.
GroupNotClosed ==
    /\ Running("primary")
    /\ Head(parser_stack).at = "group"
    /\ parser_ret.kind # "None"
    /\ parser_peek(parser_tokens, parser_current).token_type # "RIGHT_PAREN"

\* C9: when the token after a parenthesized expression is not ')', the parse
\* reports an error, returns no Grouping and leaves the cursor on that token.
C9_MissingRightParen ==
    [][GroupNotClosed =>
          /\ Len(errors') = Len(errors) + 1
          /\ had_error'
          /\ parser_ret'.kind # "Grouping"
          /\ parser_current' = parser_current]_vars

\* primary starts on a token that begins no primary expression.
NoPrimaryHere ==
    /\ Running("primary")
    /\ Head(parser_stack).at = "entry"
    /\ parser_peek(parser_tokens, parser_current).token_type \notin
           {"NUMBER", "STRING", "TRUE", "FALSE", "NIL", "LEFT_PAREN"}

\* C10: when primary starts on a token that is no literal and no '(' (EOF
\* included), the parse reports an error at that token, returns no
\* expression and consumes no token.
C10_ExpectedExpression ==
    [][NoPrimaryHere =>
          /\ Len(errors') = Len(errors) + 1
          /\ had_error'
          /\ parser_current' = parser_current]_vars


\* The token a step has pushed.
Pushed == tokens'[Len(tokens')]

\* C11: every token other than EOF has as lexeme the exact, non-empty text
\* of the source between start and current at the moment it is emitted,
\* and only the EOF token has the empty lexeme.
C11_LexemeIsSourceText ==
    /\ [](\A i \in 1..Len(tokens) :
            (tokens[i].lexeme = <<>>) <=> (tokens[i].token_type = "EOF"))
    /\ [][tokens' # tokens =>
            /\ tokens' = Append(tokens, Pushed)
            /\ Pushed.token_type # "EOF" =>
                   /\ start' < current'
                   /\ Pushed.lexeme = SubSeq(source, start' + 1, current')]_vars

C11_Witness ==
    /\ Returned
    /\ Len(tokens) >= 3
    /\ tokens[1].token_type = "STRING"
    /\ Len(tokens[1].lexeme) >= 3
    /\ tokens[2].token_type = "NUMBER"
    /\ tokens[2].lexeme = SubSeq(source, 6, 6)

\* C12: at every point of the scan and in the result, the lines of the
\* tokens never decrease from first to last (EOF included) and are all >= 1.
C12_LinesMonotone ==
    \A i \in 1..Len(tokens) :
        /\ tokens[i].line >= 1
        /\ i < Len(tokens) => tokens[i].line <= tokens[i + 1].line

C12_Witness ==
    /\ Returned
    /\ Len(tokens) = 3
    /\ tokens[1].line = 1
    /\ tokens[2].line = 2
    /\ tokens[3].token_type = "EOF"
    /\ tokens[3].line = 2

\* The literal payload the claim assigns to a token of each type.
ExpectedLiteral(t) ==
    CASE t.token_type = "NUMBER" -> LiteralNumber(ParseNumber(t.lexeme))
      [] t.token_type = "STRING" ->
             LiteralString(SubSeq(t.lexeme, 2, Len(t.lexeme) - 1))
      [] t.token_type = "TRUE"   -> LiteralBool(TRUE)
      [] t.token_type = "FALSE"  -> LiteralBool(FALSE)
      [] OTHER                   -> LiteralNil

\* C13: every emitted token carries the literal its type determines: NUMBER
\* the parsed number, STRING the text, TRUE and FALSE the boolean, and every
\* other type (NIL and EOF included) the nil literal.
C13_LiteralByType ==
    \A i \in 1..Len(tokens) : tokens[i].literal = ExpectedLiteral(tokens[i])

\* The literal payload the scanner gives a token of each type: identifier()
\* pushes keywords, TRUE and FALSE included, through add_token.
ScannedLiteral(t) ==
    CASE t.token_type = "NUMBER" -> LiteralNumber(ParseNumber(t.lexeme))
      [] t.token_type = "STRING" ->
             LiteralString(SubSeq(t.lexeme, 2, Len(t.lexeme) - 1))
      [] OTHER                   -> LiteralNil

\* C13 (amended): a NUMBER token carries the parsed number, a STRING token
\* carries the text between its quotes, and every other token type (TRUE,
\* FALSE, NIL and EOF included) carries the nil literal.
C13_LiteralByTypeAmended ==
    \A i \in 1..Len(tokens) : tokens[i].literal = ScannedLiteral(tokens[i])

C13_Witness ==
    /\ Returned
    /\ Len(tokens) = 3
    /\ Lexical(tokens[1]) = <<"FALSE", <<"f", "a", "l", "s", "e">>, LiteralNil>>
    /\ Lexical(tokens[2]) = <<"TRUE", <<"t", "r", "u", "e">>, LiteralNil>>

\* The offsets at or after from where a closing */ begins.
Closers(from) ==
    {k \in from..(Len(source) - 2) : source[k + 1] = "*" /\ source[k + 2] = "/"}

\* The offset of the first closing */ at or after from.
FirstCloser(from) == CHOOSE k \in Closers(from) : \A j \in Closers(from) : k <= j

\* C16: a block comment is consumed through the first following */ wherever
\* it lies, newline before it or not: while the comment is being skipped no
\* token is added and the scan never runs past that */, and it leaves the
\* comment only to resume with the character right after it.
C16_BlockCommentEndsAtFirstCloser ==
    [][(pc = "block_comment" /\ Closers(start + 2) # {}) =>
           /\ tokens' = tokens
           /\ current' <= FirstCloser(start + 2) + 2
           /\ pc' # "block_comment" =>
                  /\ pc' = "loop"
                  /\ current' = FirstCloser(start + 2) + 2]_vars

\* C17: each token's line is the 1-based line it started on: 1 plus the
\* number of newline characters of the source before its start offset,
\* whether those newlines stood alone, in a block comment or in a string.
C17_LineCountsNewlines ==
    [][(tokens' # tokens /\ Pushed.token_type # "EOF") =>
           Pushed.line = 1 + CountChar(SubSeq(source, 1, start'), "\n")]_vars

\* C18: a '.' is taken into a NUMBER only together with at least one digit
\* after it, so the lexeme of a NUMBER token is digits, optionally followed
\* by one '.' and digits, and never ends in '.'.
C18_NumberNeverEndsInDot ==
    \A i \in 1..Len(tokens) :
        tokens[i].token_type = "NUMBER" =>
            LET lexeme == tokens[i].lexeme
            IN  /\ is_digit(lexeme[1])
                /\ is_digit(lexeme[Len(lexeme)])
                /\ CountChar(lexeme, ".") <= 1

\* The character right after offset cur is '='.
FollowedByEqual(cur) == cur + 2 <= Len(source) /\ source[cur + 2] = "="

\* C19: when scan_token reads one of ! = < > and the next character of the
\* source is '=', it consumes both and emits the two-character token;
\* otherwise it consumes the one character and emits the one-character token.
C19_OperatorPairs ==
    [][(/\ pc = "loop"
        /\ ~is_at_end(current)
        /\ HasChar(current)
        /\ CharAt(current) \in OperatorChars) =>
           /\ tokens' = Append(tokens, Pushed)
           /\ IF FollowedByEqual(current)
              THEN /\ Pushed.token_type = TwoCharType(CharAt(current))
                   /\ current' = current + 2
              ELSE /\ Pushed.token_type = OneCharType(CharAt(current))
                   /\ current' = current + 1]_vars

\* A Binary node's right operand that is a Binary node itself (not inside a
\* Grouping) has an operator of a strictly tighter level: operators of the
\* same level never nest to the right.
LeftNested(e) ==
    e.kind = "Binary" =>
        (e.right.kind = "Binary" => Level(e.right.operator) > Level(e.operator))

TokensOneTwoThree(op1, op2) ==
    <<NumberToken1, op1, NumberToken2, op2, NumberToken3, eof_token(1)>>

\* C20: each binary rule is left-associative: no Binary node the parser
\* builds has a same-level Binary as right operand, and the tokens of
\* "1 op1 2 op2 3" with op1, op2 of one level parse to
\* Binary(Binary(1, op1, 2), op2, 3).
C20_LeftAssociative ==
    /\ LeftNested(parser_ret)
    /\ \A k \in 1..Len(parser_stack) : LeftNested(parser_stack[k].expr)
    /\ \A op1, op2 \in BinaryOperatorTokens :
           (/\ Level(op1) = Level(op2)
            /\ parser_pc = "done"
            /\ parser_tokens = TokensOneTwoThree(op1, op2))
           => parser_result =
                  Binary(Binary(Literal(One), op1, Literal(Two)), op2, Literal(Three))

C20_Witness ==
    /\ parser_pc = "done"
    /\ parser_tokens = TokensOneTwoThree(MinusToken, PlusToken)
    /\ parser_result =
           Binary(Binary(Literal(One), MinusToken, Literal(Two)), PlusToken,
                  Literal(Three))

\* The process was started with a script file / as an interactive prompt.
FileMode == argc = 2

PromptMode == argc = 1

\* C14: in script-file mode every reported error sets the failure flag, the
\* flag is never cleared before the check that follows the run, and once
\* the whole file has been processed the process exits with status 64 if
\* and only if at least one error was reported.
C14_FileModeExit ==
    /\ [][(FileMode /\ errors' # errors) => had_error']_vars
    /\ [][(FileMode /\ had_error) => had_error']_vars
    /\ [](FileMode => (had_error <=> errors # <<>>))
    /\ []((FileMode /\ lox_pc = "exited" /\ pc = "returned") =>
             /\ exit_status \in {"exit(64)", "returned"}
             /\ exit_status = "exit(64)" <=> errors # <<>>)

C14_Witness ==
    /\ FileMode
    /\ lox_pc = "exited"
    /\ pc = "returned"
    /\ exit_status = "exit(64)"
    /\ Messages(errors) = <<"Unexpected character.">>
    /\ Len(tokens) >= 2

\* C15: in REPL mode the failure flag is false whenever a line is about to
\* be read and when its scan starts, the flag is raised only by a report
\* made while the current line is run, a report never ends the process, and
\* the process never exits with the error status.
C15_PromptModeReset ==
    /\ []((PromptMode /\ lox_pc = "run_prompt") => ~had_error)
    /\ []((PromptMode /\ lox_pc = "prompt_run" /\ pc = "idle") => ~had_error)
    /\ [][(PromptMode /\ ~had_error /\ had_error') =>
              (lox_pc = "prompt_run" /\ errors' # errors)]_vars
    /\ [][(PromptMode /\ errors' # errors) =>
              (lox_pc' = "prompt_run" /\ exit_status' = "running")]_vars
    /\ [](PromptMode => exit_status \in {"running", "panic"})

C15_Witness ==
    /\ PromptMode
    /\ lox_pc = "prompt_run"
    /\ pc = "returned"
    /\ stdin = <<>>
    /\ Len(errors) = 1
    /\ ~had_error
    /\ Len(tokens) = 2

\* C21: on the empty source the end-of-input test is well defined: the scan
\* does not panic, and when scan_tokens returns its result is the EOF token
\* with line 1 alone.
C21_EmptySource ==
    source = <<>> =>
        /\ pc # "panic"
        /\ Returned => result = <<eof_token(1)>>

\* C22: while a non-empty source is scanned, 0 <= start <= current <=
\* length(source) in every reachable state, and no step panics in advance,
\* peek or peek_next: the only panic left is the overflow of the line
\* counter under overflow checks.
C22_OffsetsInRange ==
    /\ [](source # <<>> =>
             (0 <= start /\ start <= current /\ current <= Len(source)))
    /\ [][(source # <<>> /\ pc # "panic" /\ pc' = "panic") =>
              (overflow_checks /\ line = LineMax)]_vars

C22_Witness ==
    /\ Returned
    /\ Len(tokens) >= 2
    /\ 0 < start
    /\ start + 4 = current
    /\ current = Len(source)

\* The number of EOF tokens in a token sequence.
EofCount(toks) == Cardinality({i \in 1..Len(toks) : toks[i].token_type = "EOF"})

\* C23: the token list accumulates across calls: a second scan_tokens call
\* on a Scanner whose first call returned scans no further character and
\* returns the first result with one more EOF token appended, two EOF
\* tokens in all.
C23_SecondCallAppendsEof ==
    [][calls' = 2 =>
           /\ current' = current
           /\ start' = start
           /\ line' = line
           /\ pc' # "panic"
           /\ (pc # "returned" /\ pc' = "returned") =>
                  /\ result' = Append(result, eof_token(line))
                  /\ EofCount(result') = 2]_vars

C23_Witness ==
    /\ calls = 2
    /\ pc = "returned"
    /\ Len(result) >= 4
    /\ EofCount(result) = 2
    /\ result[Len(result) - 1].token_type = "EOF"

\* The parser is at the EOF token.
AtEof == parser_is_at_end(parser_tokens, parser_current)

\* C24: on a token sequence ending with EOF the cursor indexes a token after
\* any sequence of match_tokens, consume, check and advance calls: advance
\* at EOF leaves the cursor unchanged, check is false at EOF for every
\* type, and previous is never evaluated with current = 0 (no call panics).
C24_CursorValid ==
    /\ 0 <= parser_current
    /\ parser_current < Len(parser_tokens)
    /\ AtEof => /\ parser_advance(parser_tokens, parser_current) = parser_current
                /\ \A token_type \in CheckedTypes :
                       ~parser_check(parser_tokens, parser_current, token_type)
    /\ parser_pc # "panic"

====
